---------------------------- MODULE Spec2Model ----------------------------
(***************************************************************************)
(* Model of meshtastic_sender.py: the ATAK protobuf encoder                *)
(* (ATAKProtobuf), the sender (MeshtasticCoTSender) and main().            *)
(*                                                                         *)
(* Bytes are integers 0..255 and a byte string is a sequence of them.  A   *)
(* Python str is a sequence of Unicode code points, so that len(str) and   *)
(* len(str.encode('utf-8')) are different things, as they are in Python.   *)
(* An optional value (None or a value) is a sequence of length 0 or 1.     *)
(* A float parsed from a decimal string is kept exactly, as the pair       *)
(* (m, k) standing for m / 10^k; binary rounding of doubles is not         *)
(* modelled.                                                               *)
(***************************************************************************)
EXTENDS Integers, Sequences, FiniteSets, TLC

VARIABLES
    cot_xml,    \* the input string handed to encode_full_packet / read from stdin
    compress,   \* encode_full_packet's compress argument
    pc,         \* position inside encode_full_packet
    msg,        \* the bytearray msg being built (line 197)
    result,     \* the bytes encode_full_packet returned
    value,      \* the argument of a direct _encode_varint call
    varint_out, \* what that call returned (<<>> before it ran)
    mpc,        \* position inside main / send_cot / close
    argv,       \* what the command line holds: "ok", "bad" or "help"
    opened,     \* number of transport interfaces constructed
    atak_packet,\* send_cot's local atak_packet
    sends,      \* number of interface.sendData calls made
    sent,       \* the packets handed to interface.sendData, in order
    send_outcome, \* "none", or how the last sendData ended: "ok" or "raised"
    success,    \* what send_cot returned ("none" before it returned)
    pending,    \* the code of the SystemExit in flight (-1: none)
    closes,     \* number of interface.close calls made
    close_error,\* whether interface.close raised
    exit_status \* the process's exit status (-1 while running)

vars == <<cot_xml, compress, pc, msg, result, value, varint_out,
          mpc, argv, opened, atak_packet, sends, sent, send_outcome, success,
          pending, closes, close_error, exit_status>>

encVars == <<cot_xml, compress, pc, msg, result>>
varintVars == <<value, varint_out>>
mainVars == <<mpc, argv, opened, atak_packet, sends, sent, send_outcome, success,
              pending, closes, close_error, exit_status>>

-----------------------------------------------------------------------------
(* Optional values and small helpers *)

None == <<>>
Some(x) == <<x>>
IsNone(o) == o = <<>>
Get(o) == o[1]

\* Python's truthiness of an attribute value (None and '' are falsy).
Truthy(o) == o # <<>> /\ o[1] # <<>>

\* int() of a non-negative quotient, truncating toward zero.
TruncDiv(a, b) == IF a >= 0 THEN a \div b ELSE -((-a) \div b)

RECURSIVE Pow10(_)
Pow10(n) == IF n = 0 THEN 1 ELSE 10 * Pow10(n - 1)

\* The concatenation of a sequence of sequences, by halves.
RECURSIVE Flatten(_)
Flatten(ss) ==
    IF Len(ss) = 0 THEN <<>>
    ELSE IF Len(ss) = 1 THEN ss[1]
    ELSE Flatten(SubSeq(ss, 1, Len(ss) \div 2))
             \o Flatten(SubSeq(ss, Len(ss) \div 2 + 1, Len(ss)))

-----------------------------------------------------------------------------
(* str.encode('utf-8'), per code point *)

Utf8Char(c) ==
    IF c < 128 THEN <<c>>
    ELSE IF c < 2048 THEN <<192 + (c \div 64), 128 + (c % 64)>>
    ELSE IF c < 65536 THEN
        <<224 + (c \div 4096), 128 + ((c \div 64) % 64), 128 + (c % 64)>>
    ELSE <<240 + (c \div 262144), 128 + ((c \div 4096) % 64),
           128 + ((c \div 64) % 64), 128 + (c % 64)>>

Utf8(s) == Flatten([i \in 1..Len(s) |-> Utf8Char(s[i])])

-----------------------------------------------------------------------------
(* _encode_varint, lines 308-316.  value & 0x7F is value % 128 and         *)
(* value >> 7 is the floor of value / 128, for negative values too.        *)

RECURSIVE _encode_varint(_)
_encode_varint(v) ==
    IF v > 127 THEN <<(v % 128) + 128>> \o _encode_varint(v \div 128)
    ELSE <<v % 128>>


-----------------------------------------------------------------------------
(* Python's float() and int() on an attribute value.  The attribute        *)
(* strings of this model are written over the digits, '+', '-', '.' and    *)
(* 'x'; on that alphabet the two parsers below accept exactly what Python  *)
(* accepts (no exponent, whitespace, underscore, inf or nan occurs).       *)

\* Code points: '+' is 43, '-' is 45, '.' is 46, '0'..'9' are 48..57.
Digits == 48..57
SignChars == {43, 45}

RECURSIVE DigitsValue(_)
DigitsValue(ds) ==
    IF ds = <<>> THEN 0
    ELSE 10 * DigitsValue(SubSeq(ds, 1, Len(ds) - 1)) + (ds[Len(ds)] - 48)

IsDot(c) == c = 46
NotDot(c) == c # 46

\* float(s): Some([m, k]) for the value m / 10^k, None for ValueError.
ParseFloat(s) ==
    LET signed == Len(s) > 0 /\ s[1] \in SignChars
        neg == Len(s) > 0 /\ s[1] = 45
        body == IF signed THEN Tail(s) ELSE s
        dots == {i \in 1..Len(body) : IsDot(body[i])}
        wellFormed == /\ \A i \in 1..Len(body) : IsDot(body[i]) \/ body[i] \in Digits
                      /\ Cardinality(dots) <= 1
                      /\ Len(body) - Cardinality(dots) >= 1
        k == IF dots = {} THEN 0 ELSE Len(body) - (CHOOSE i \in dots : TRUE)
        mag == DigitsValue(SelectSeq(body, NotDot))
    IN  IF wellFormed THEN Some([m |-> IF neg THEN -mag ELSE mag, k |-> k]) ELSE None

\* int(s): Some(n), or None for ValueError.
ParseInt(s) ==
    LET signed == Len(s) > 0 /\ s[1] \in SignChars
        neg == Len(s) > 0 /\ s[1] = 45
        body == IF signed THEN Tail(s) ELSE s
        wellFormed == Len(body) >= 1 /\ \A i \in 1..Len(body) : body[i] \in Digits
        mag == DigitsValue(body)
    IN  IF wellFormed THEN Some(IF neg THEN -mag ELSE mag) ELSE None

\* float(0), the default of point_elem.get('lat', 0).
FloatZero == [m |-> 0, k |-> 0]

\* int(f) of a float: truncation toward zero.
IntOfFloat(f) == TruncDiv(f.m, Pow10(f.k))

\* int(float(s)) as lines 265-279 write it: None when float() raises.
IntOfFloatStr(s) ==
    LET f == ParseFloat(s) IN IF IsNone(f) THEN None ELSE Some(IntOfFloat(Get(f)))

-----------------------------------------------------------------------------
(* struct.pack('<i', v): four little-endian bytes of a signed 32-bit       *)
(* integer; struct.error when v is outside [-2^31, 2^31 - 1].              *)

Int32Max == 2147483647
Int32Min == -Int32Max - 1

\* Whether int(f * 1e7) fits struct.pack('<i'), computed without leaving
\* 32 bits: for a scale s = 10^j > 1, m * s is in range iff
\* |m| <= (2^31 - 1) \div s, because 2^31 is no multiple of 10.
FitsInt32E7(f) ==
    IF f.k >= 7 THEN TRUE
    ELSE LET s == Pow10(7 - f.k)
         IN  f.m <= Int32Max \div s /\ f.m >= -(Int32Max \div s)

\* int(f * 1e7), lines 79-80 (read only when FitsInt32E7(f)).
ScaleE7(f) ==
    IF f.k >= 7 THEN TruncDiv(f.m, Pow10(f.k - 7)) ELSE f.m * Pow10(7 - f.k)

StructPackI(v) ==
    <<v % 256, (v \div 256) % 256, (v \div 65536) % 256, (v \div 16777216) % 256>>


-----------------------------------------------------------------------------
(* The enum tables, lines 49-61 *)

TEAM_COLORS ==
    ("White" :> 1) @@ ("Yellow" :> 2) @@ ("Orange" :> 3) @@ ("Magenta" :> 4) @@
    ("Red" :> 5) @@ ("Maroon" :> 6) @@ ("Purple" :> 7) @@ ("Dark Blue" :> 8) @@
    ("Blue" :> 9) @@ ("Cyan" :> 10) @@ ("Teal" :> 11) @@ ("Green" :> 12) @@
    ("Dark Green" :> 13) @@ ("Brown" :> 14)

MEMBER_ROLES ==
    ("Team Member" :> 1) @@ ("Team Lead" :> 2) @@ ("HQ" :> 3) @@ ("Sniper" :> 4) @@
    ("Medic" :> 5) @@ ("Forward Observer" :> 6) @@ ("RTO" :> 7) @@ ("K9" :> 8)

\* dict.get(key, default)
DictGet(d, key, default) == IF key \in DOMAIN d THEN d[key] ELSE default

\* Element.get(name, default) on an optional attribute.
AttrGet(attr, default) == IF IsNone(attr) THEN default ELSE Get(attr)

-----------------------------------------------------------------------------
(* encode_pli, lines 64-117.  lat and lon are floats (m, k); the result is *)
(* Some(bytes), or None when struct.pack raises struct.error.              *)

\* An encode_pli that writes field 3 whatever the altitude is.
encode_pli_always_alt(lat, lon, alt, speed, course) ==
    IF ~FitsInt32E7(lat) \/ ~FitsInt32E7(lon) THEN None
    ELSE LET pli_msg ==
                 <<13>> \o StructPackI(ScaleE7(lat))
                 \o <<21>> \o StructPackI(ScaleE7(lon))
                 \o (_encode_varint(24) \o _encode_varint(alt))
                 \o (IF speed > 0 THEN _encode_varint(32) \o _encode_varint(speed) ELSE <<>>)
                 \o (IF course > 0 THEN _encode_varint(40) \o _encode_varint(course) ELSE <<>>)
         IN  Some(<<42>> \o _encode_varint(Len(pli_msg)) \o pli_msg)

encode_pli(lat, lon, alt, speed, course) ==
    IF ~FitsInt32E7(lat) \/ ~FitsInt32E7(lon) THEN None
    ELSE LET lat_i == ScaleE7(lat)
             lon_i == ScaleE7(lon)
             pli_msg ==
                 <<13>> \o StructPackI(lat_i)
                 \o <<21>> \o StructPackI(lon_i)
                 \o (IF alt # 0 THEN _encode_varint(24) \o _encode_varint(alt) ELSE <<>>)
                 \o (IF speed > 0 THEN _encode_varint(32) \o _encode_varint(speed) ELSE <<>>)
                 \o (IF course > 0 THEN _encode_varint(40) \o _encode_varint(course) ELSE <<>>)
         IN  Some(<<42>> \o _encode_varint(Len(pli_msg)) \o pli_msg)

(* encode_geochat, lines 120-160.  message is a str; to and to_callsign    *)
(* are optional strs.  len(message) counts code points.                    *)
encode_geochat(message, to, to_callsign) ==
    LET chat_msg ==
            <<10>> \o _encode_varint(Len(message)) \o Utf8(message)
            \o (IF Truthy(to)
                THEN <<18>> \o _encode_varint(Len(Get(to))) \o Utf8(Get(to))
                ELSE <<>>)
            \o (IF Truthy(to_callsign)
                THEN <<26>> \o _encode_varint(Len(Get(to_callsign))) \o Utf8(Get(to_callsign))
                ELSE <<>>)
    IN  <<50>> \o _encode_varint(Len(chat_msg)) \o chat_msg

(* encode_contact, lines 163-179 *)
encode_contact(callsign, device_callsign) ==
    (IF callsign # <<>>
     THEN <<10>> \o _encode_varint(Len(callsign)) \o Utf8(callsign)
     ELSE <<>>)
    \o (IF Truthy(device_callsign)
        THEN <<18>> \o _encode_varint(Len(Get(device_callsign))) \o Utf8(Get(device_callsign))
        ELSE <<>>)


-----------------------------------------------------------------------------
(* The input of encode_full_packet.  cot_xml.text says what kind of string *)
(* it is; when it is well-formed XML, cot_xml.tree holds what the seven    *)
(* root.find('.//name') calls of lines 204-294 return: for each element    *)
(* name None, or the first such element's attributes (each None or a str). *)

EmptyTree ==
    [contact |-> None, group |-> None, status |-> None, point |-> None,
     track |-> None, remarks |-> None, dest |-> None]

\* ET.fromstring, line 195: the root, or None for ParseError.
ET_fromstring(x) == IF x.text = "wellformed" THEN Some(x.tree) ELSE None

\* "A1", "Zoe" with e-diaeresis (U+00EB, two UTF-8 bytes), "hi", "B2",
\* "n" + e-acute (U+00E9), and the euro sign (U+20AC, three UTF-8 bytes).
StrA1 == <<65, 49>>
StrZoe == <<90, 111, 235>>
StrHi == <<104, 105>>
StrB2 == <<66, 50>>
StrNe == <<110, 233>>
StrEuro == <<8364>>

\* A chat text long enough for a two-byte length prefix: LongTextLen times "a".
LongTextLen == 130
LongText == [i \in 1..LongTextLen |-> 97]

ContactChoices ==
    {None,
     Some([callsign |-> None]),
     Some([callsign |-> Some(StrA1)]),
     Some([callsign |-> Some(StrZoe)])}

GroupChoices ==
    {None,
     Some([role |-> Some("Sniper"), name |-> Some("Red")]),
     Some([role |-> None, name |-> Some("Plaid")])}

\* battery: "85", "300", "-5", "x"
StatusChoices ==
    {None,
     Some([battery |-> Some(<<56, 53>>)]),
     Some([battery |-> Some(<<51, 48, 48>>)]),
     Some([battery |-> Some(<<45, 53>>)]),
     Some([battery |-> Some(<<120>>)])}

\* (lat, lon): ("34.05", "-118.25"), (absent, absent),
\* ("-0.00000005", "179.9999999"), ("x", "1.5"), ("300", "0")
LatLonChoices ==
    {<<Some(<<51, 52, 46, 48, 53>>), Some(<<45, 49, 49, 56, 46, 50, 53>>)>>,
     <<None, None>>,
     <<Some(<<45, 48, 46, 48, 48, 48, 48, 48, 48, 48, 53>>),
       Some(<<49, 55, 57, 46, 57, 57, 57, 57, 57, 57, 57>>)>>,
     <<Some(<<120>>), Some(<<49, 46, 53>>)>>,
     <<Some(<<51, 48, 48>>), Some(<<48>>)>>}

\* (hae, le): (absent, absent), ("0", absent), ("100.9", absent),
\* ("", "9"), ("x", absent), ("-5", "7")
AltChoices ==
    {<<None, None>>,
     <<Some(<<48>>), None>>,
     <<Some(<<49, 48, 48, 46, 57>>), None>>,
     <<Some(<<>>), Some(<<57>>)>>,
     <<Some(<<120>>), None>>,
     <<Some(<<45, 53>>), Some(<<55>>)>>}

PointChoices ==
    {None} \cup
    {Some([lat |-> ll[1], lon |-> ll[2], hae |-> a[1], le |-> a[2]]) :
        ll \in LatLonChoices, a \in AltChoices}

\* (speed, course): ("12.7", "270"), (absent, "x"), ("0", "-3")
TrackChoices ==
    {None,
     Some([speed |-> Some(<<49, 50, 46, 55>>), course |-> Some(<<50, 55, 48>>)]),
     Some([speed |-> None, course |-> Some(<<120>>)]),
     Some([speed |-> Some(<<48>>), course |-> Some(<<45, 51>>)])}

\* (remarks, dest)
ChatChoices ==
    {<<None, None>>,
     <<Some([text |-> None]), Some([callsign |-> Some(StrB2)])>>,
     <<Some([text |-> Some(StrHi)]), Some([callsign |-> None])>>,
     <<Some([text |-> Some(StrNe)]), Some([callsign |-> Some(StrEuro)])>>,
     <<Some([text |-> Some(LongText)]), None>>}

Trees ==
    {[contact |-> c, group |-> g, status |-> s, point |-> p, track |-> t,
      remarks |-> ch[1], dest |-> ch[2]] :
        c \in ContactChoices, g \in GroupChoices, s \in StatusChoices,
        p \in PointChoices, t \in TrackChoices, ch \in ChatChoices}

Inputs ==
    {[text |-> k, tree |-> EmptyTree] : k \in {"empty", "garbage", "malformed"}}
    \cup {[text |-> "wellformed", tree |-> t] : t \in Trees}

-----------------------------------------------------------------------------
(* encode_full_packet, lines 182-306, section by section.  Each section    *)
(* gives the bytes it appends to msg.                                      *)

\* lines 199-201
compress_part(c) == IF c THEN <<8, 1>> ELSE <<>>

\* lines 203-212
contact_part(root) ==
    IF IsNone(root.contact) THEN <<>>
    ELSE LET callsign == AttrGet(Get(root.contact).callsign, <<>>)
         IN  IF callsign = <<>> THEN <<>>
             ELSE LET contact_data == encode_contact(callsign, None)
                  IN  IF contact_data = <<>> THEN <<>>
                      ELSE <<18>> \o _encode_varint(Len(contact_data)) \o contact_data

\* lines 214-237
group_part(root) ==
    IF IsNone(root.group) THEN <<>>
    ELSE LET role == AttrGet(Get(root.group).role, "Team Member")
             team == AttrGet(Get(root.group).name, "Cyan")
             role_value == DictGet(MEMBER_ROLES, role, 1)
             team_value == DictGet(TEAM_COLORS, team, 10)
             group_msg ==
                 (IF role_value > 0 THEN <<8>> \o _encode_varint(role_value) ELSE <<>>)
                 \o (IF team_value > 0 THEN <<16>> \o _encode_varint(team_value) ELSE <<>>)
         IN  IF group_msg = <<>> THEN <<>>
             ELSE <<26>> \o _encode_varint(Len(group_msg)) \o group_msg

\* lines 239-254: a ValueError of int(battery) is caught inside the section.
status_part(root) ==
    IF IsNone(root.status) THEN <<>>
    ELSE LET battery == Get(root.status).battery
         IN  IF ~Truthy(battery) THEN <<>>
             ELSE LET battery_val == ParseInt(Get(battery))
                  IN  IF IsNone(battery_val) THEN <<>>
                      ELSE LET status_msg == <<8>> \o _encode_varint(Get(battery_val))
                           IN  <<34>> \o _encode_varint(Len(status_msg)) \o status_msg


\* lines 259-260: float(point_elem.get('lat', 0)); None when float() raises.
point_lat(point) == IF IsNone(point.lat) THEN Some(FloatZero) ELSE ParseFloat(Get(point.lat))
point_lon(point) == IF IsNone(point.lon) THEN Some(FloatZero) ELSE ParseFloat(Get(point.lon))

\* lines 262-267: the altitude, HAE preferred; None when float() raises.
point_alt(point) ==
    IF Truthy(point.hae) THEN IntOfFloatStr(Get(point.hae))
    ELSE IF Truthy(point.le) THEN IntOfFloatStr(Get(point.le))
    ELSE Some(0)

\* lines 269-279: speed and course of the track element; None when float() raises.
track_speed(root) ==
    IF IsNone(root.track) THEN Some(0)
    ELSE IF Truthy(Get(root.track).speed) THEN IntOfFloatStr(Get(Get(root.track).speed))
    ELSE Some(0)

track_course(root) ==
    IF IsNone(root.track) THEN Some(0)
    ELSE IF Truthy(Get(root.track).course) THEN IntOfFloatStr(Get(Get(root.track).course))
    ELSE Some(0)

\* lines 256-283: Some(bytes appended), or None when a statement of the
\* section raises (ValueError of float(), struct.error of struct.pack).
point_part(root) ==
    IF IsNone(root.point) THEN Some(<<>>)
    ELSE LET point_elem == Get(root.point)
             lat == point_lat(point_elem)
             lon == point_lon(point_elem)
             alt == point_alt(point_elem)
             speed == track_speed(root)
             course == track_course(root)
         IN  IF IsNone(lat) \/ IsNone(lon) \/ IsNone(alt) \/ IsNone(speed) \/ IsNone(course)
             THEN None
             ELSE encode_pli(Get(lat), Get(lon), Get(alt), Get(speed), Get(course))

\* lines 285-299: to_uid stays None.
chat_part(root) ==
    IF IsNone(root.remarks) \/ ~Truthy(Get(root.remarks).text) THEN <<>>
    ELSE LET chat_text == Get(Get(root.remarks).text)
             to_uid == None
             to_callsign == IF IsNone(root.dest) THEN None ELSE Get(root.dest).callsign
         IN  encode_geochat(chat_text, to_uid, to_callsign)

\* A handler that returns the fallback after what msg already holds.
except_handler_keeps_msg(partial) == partial \o Get(encode_pli(FloatZero, FloatZero, 0, 0, 0))

\* lines 303-306: the handler's return value; partial is the msg built so
\* far, which the handler does not read.
except_handler(partial) == Get(encode_pli(FloatZero, FloatZero, 0, 0, 0))

\* encode_full_packet as a function of its arguments, lines 182-306.
encode_full_packet(x, c) ==
    LET parsed == ET_fromstring(x)
    IN  IF IsNone(parsed) THEN except_handler(<<>>)
        ELSE LET root == Get(parsed)
                 head == compress_part(c) \o contact_part(root) \o group_part(root)
                             \o status_part(root)
                 pli_data == point_part(root)
             IN  IF IsNone(pli_data) THEN except_handler(head)
                 ELSE head \o Get(pli_data) \o chat_part(root)

-----------------------------------------------------------------------------
(* One call of encode_full_packet, statement group by statement group.     *)
(* pc: "call", "contact", "group", "status", "point", "chat", "except",    *)
(* "done".                                                                 *)

Root == Get(ET_fromstring(cot_xml))

\* lines 193-201: ET.fromstring, msg = bytearray(), is_compressed.
ParseXml ==
    /\ pc = "call"
    /\ IF IsNone(ET_fromstring(cot_xml))
       THEN pc' = "except" /\ msg' = msg
       ELSE pc' = "contact" /\ msg' = compress_part(compress)
    /\ UNCHANGED <<cot_xml, compress, result, varintVars, mainVars>>

\* lines 203-212
ExtractContact ==
    /\ pc = "contact"
    /\ msg' = msg \o contact_part(Root)
    /\ pc' = "group"
    /\ UNCHANGED <<cot_xml, compress, result, varintVars, mainVars>>

\* lines 214-237
ExtractGroup ==
    /\ pc = "group"
    /\ msg' = msg \o group_part(Root)
    /\ pc' = "status"
    /\ UNCHANGED <<cot_xml, compress, result, varintVars, mainVars>>

\* lines 239-254
ExtractStatus ==
    /\ pc = "status"
    /\ msg' = msg \o status_part(Root)
    /\ pc' = "point"
    /\ UNCHANGED <<cot_xml, compress, result, varintVars, mainVars>>

\* A slip that writes the PLI record in front of what msg already holds.
ExtractPointPrepends ==
    /\ pc = "point"
    /\ IF IsNone(point_part(Root))
       THEN pc' = "except" /\ msg' = msg
       ELSE pc' = "chat" /\ msg' = Get(point_part(Root)) \o msg
    /\ UNCHANGED <<cot_xml, compress, result, varintVars, mainVars>>

\* lines 256-283: an exception leaves msg as it is and enters the handler.
ExtractPoint ==
    /\ pc = "point"
    /\ IF IsNone(point_part(Root))
       THEN pc' = "except" /\ msg' = msg
       ELSE pc' = "chat" /\ msg' = msg \o Get(point_part(Root))
    /\ UNCHANGED <<cot_xml, compress, result, varintVars, mainVars>>

\* lines 285-301: the chat record, then return bytes(msg).
ExtractChatAndReturn ==
    /\ pc = "chat"
    /\ msg' = msg \o chat_part(Root)
    /\ result' = msg'
    /\ pc' = "done"
    /\ UNCHANGED <<cot_xml, compress, varintVars, mainVars>>

\* lines 303-306: except Exception: return encode_pli(0.0, 0.0).
Except ==
    /\ pc = "except"
    /\ result' = except_handler(msg)
    /\ pc' = "done"
    /\ UNCHANGED <<cot_xml, compress, msg, varintVars, mainVars>>

VarintIdle == value = 0 /\ varint_out = <<>>

MainIdle ==
    /\ mpc = "idle" /\ argv = "ok" /\ opened = 0 /\ atak_packet = <<>>
    /\ sends = 0 /\ sent = <<>> /\ send_outcome = "none" /\ success = "none"
    /\ pending = -1 /\ closes = 0 /\ close_error = FALSE /\ exit_status = -1

EncodeIdle ==
    /\ cot_xml = [text |-> "empty", tree |-> EmptyTree] /\ compress = FALSE
    /\ pc = "idle" /\ msg = <<>> /\ result = <<>>

Init ==
    /\ cot_xml \in Inputs
    /\ compress \in BOOLEAN
    /\ pc = "call"
    /\ msg = <<>>
    /\ result = <<>>
    /\ VarintIdle
    /\ MainIdle

Next ==
    \/ ParseXml
    \/ ExtractContact
    \/ ExtractGroup
    \/ ExtractStatus
    \/ ExtractPoint
    \/ ExtractChatAndReturn
    \/ Except

Spec == Init /\ [][Next]_vars

\* The statement groups compose to the function.
StepsAgreeWithFunction == pc = "done" => result = encode_full_packet(cot_xml, compress)

-----------------------------------------------------------------------------
(* A reader of the wire format: it walks a buffer by tags and length       *)
(* prefixes.  Field numbers are below 16, so a tag is one byte.            *)

\* The varint at buf[pos..]: [ok, val, next]; at most four bytes are read,
\* which covers every length and value below 2^28.
RECURSIVE ReadVarint(_, _, _)
ReadVarint(buf, pos, n) ==
    IF pos > Len(buf) \/ n > 4 THEN [ok |-> FALSE, val |-> 0, next |-> pos]
    ELSE IF buf[pos] < 128 THEN [ok |-> TRUE, val |-> buf[pos], next |-> pos + 1]
    ELSE LET rest == ReadVarint(buf, pos + 1, n + 1)
         IN  [ok |-> rest.ok, val |-> (buf[pos] - 128) + 128 * rest.val, next |-> rest.next]

\* The fields of buf[pos..] as Some(<<[tag, payload], ...>>), or None when
\* the walk does not consume the buffer exactly.
RECURSIVE ReadFields(_, _)
ReadFields(buf, pos) ==
    IF pos > Len(buf) THEN Some(<<>>)
    ELSE LET tag == buf[pos]
             wt == tag % 8
             v == ReadVarint(buf, pos + 1, 1)
             from == IF wt = 2 THEN v.next ELSE pos + 1
             to == CASE wt = 0 -> v.next - 1
                    [] wt = 2 -> v.next + v.val - 1
                    [] wt = 5 -> pos + 4
                    [] wt = 1 -> pos + 8
                    [] OTHER -> Len(buf) + 1
             fits == tag < 128 /\ tag >= 8 /\ (wt \in {0, 2} => v.ok) /\ to <= Len(buf)
         IN  IF ~fits THEN None
             ELSE LET rest == ReadFields(buf, to + 1)
                  IN  IF IsNone(rest) THEN None
                      ELSE Some(<<[tag |-> tag, payload |-> SubSeq(buf, from, to)]>> \o Get(rest))

Tags(fields) == [i \in 1..Len(fields) |-> fields[i].tag]

\* The payloads of the fields carrying tag t.
Payloads(fields, t) ==
    LET hit == SelectSeq(fields, LAMBDA f : f.tag = t)
    IN  [i \in 1..Len(hit) |-> hit[i].payload]

\* The PLI sub-record (top-level tag 0x2a) of a buffer: Some(payload) or None.
PliOf(buf) ==
    LET top == ReadFields(buf, 1)
    IN  IF IsNone(top) \/ Payloads(Get(top), 42) = <<>> THEN None
        ELSE Some(Payloads(Get(top), 42)[1])

\* A little-endian signed 32-bit integer.
DecodeSFixed32(b) ==
    b[1] + 256 * b[2] + 65536 * b[3]
        + 16777216 * (IF b[4] >= 128 THEN b[4] - 256 ELSE b[4])

Returned == pc = "done"
WellFormed == ~IsNone(ET_fromstring(cot_xml))
ReturnedNormally == Returned /\ WellFormed /\ ~IsNone(point_part(Root))
FallbackPayload == <<42, 10, 13, 0, 0, 0, 0, 21, 0, 0, 0, 0>>

-----------------------------------------------------------------------------
(* C1: for every input and either value of compress, encode_full_packet    *)
(* returns a non-empty buffer that holds a PLI sub-record (tag 0x2a)       *)
(* carrying a latitude (tag 0x0d) and a longitude (tag 0x15) field.        *)
C1_AlwaysEmitsPli ==
    Returned =>
        /\ result # <<>>
        /\ ~IsNone(PliOf(result))
        /\ LET pli == ReadFields(Get(PliOf(result)), 1)
           IN  ~IsNone(pli) /\ 13 \in {Tags(Get(pli))[i] : i \in 1..Len(Get(pli))}
                            /\ 21 \in {Tags(Get(pli))[i] : i \in 1..Len(Get(pli))}

-----------------------------------------------------------------------------
(* C2: a non-numeric value in one of point.lat, point.lon, point.hae,      *)
(* point.le, status.battery, track.speed, track.course makes only that     *)
(* field absent: the packet is the one the document would give with that   *)
(* attribute missing.                                                      *)

NumericAttrs ==
    {<<"point", "lat">>, <<"point", "lon">>, <<"point", "hae">>, <<"point", "le">>,
     <<"status", "battery">>, <<"track", "speed">>, <<"track", "course">>}

\* Whether attribute a of the tree is present and not a number.
NonNumeric(tree, a) ==
    /\ ~IsNone(tree[a[1]])
    /\ ~IsNone(Get(tree[a[1]])[a[2]])
    /\ IF a[1] = "status"
       THEN IsNone(ParseInt(Get(Get(tree[a[1]])[a[2]])))
       ELSE Get(Get(tree[a[1]])[a[2]]) # <<>> /\ IsNone(ParseFloat(Get(Get(tree[a[1]])[a[2]])))

\* The input with attribute a removed from its element.
WithoutAttr(x, a) ==
    [x EXCEPT !.tree[a[1]] = Some([Get(@) EXCEPT ![a[2]] = None])]

\* C2: with exactly one of the seven attributes non-numeric, the returned
\* packet is the packet of the same document without that attribute.
C2_NonNumericIsLocal ==
    (Returned /\ WellFormed) =>
        \A a \in NumericAttrs :
            (NonNumeric(Root, a) /\ \A b \in NumericAttrs \ {a} : ~NonNumeric(Root, b))
                => result = encode_full_packet(WithoutAttr(cot_xml, a), compress)

-----------------------------------------------------------------------------
(* C3: the top-level tags of the returned buffer are in strictly           *)
(* increasing field-number order, drawn from is_compressed (1, only when   *)
(* compress), contact (2), group (3), status (4), pli (5), chat (6).       *)
C3_TopLevelOrder ==
    Returned =>
        LET top == ReadFields(result, 1)
        IN  /\ ~IsNone(top)
            /\ \A i \in 1..Len(Get(top)) :
                   /\ Get(top)[i].tag \in {8, 18, 26, 34, 42, 50}
                   /\ Get(top)[i].tag = 8 => compress /\ i = 1
                   /\ \A j \in 1..Len(Get(top)) :
                          i < j => Get(top)[i].tag \div 8 < Get(top)[j].tag \div 8

\* All six top-level fields are present in a returned buffer.
C3_Witness ==
    Returned /\ compress /\ ~IsNone(ReadFields(result, 1))
        /\ Tags(Get(ReadFields(result, 1))) = <<8, 18, 26, 34, 42, 50>>

-----------------------------------------------------------------------------
(* C4: every length-delimited field is tag, varint(number of UTF-8 bytes   *)
(* of the payload), payload: a reader walking by the length prefixes       *)
(* consumes the buffer and every sub-record exactly, and finds the         *)
(* callsign, the chat message and the recipient callsign as written.       *)
C4_LengthIsUtf8ByteCount ==
    ReturnedNormally =>
        LET top == ReadFields(result, 1)
            callsign == IF IsNone(Root.contact) THEN <<>>
                        ELSE AttrGet(Get(Root.contact).callsign, <<>>)
            hasChat == ~IsNone(Root.remarks) /\ Truthy(Get(Root.remarks).text)
            to_callsign == IF IsNone(Root.dest) THEN None ELSE Get(Root.dest).callsign
        IN  /\ ~IsNone(top)
            /\ \A i \in 1..Len(Get(top)) :
                   Get(top)[i].tag % 8 = 2 => ~IsNone(ReadFields(Get(top)[i].payload, 1))
            /\ callsign # <<>> =>
                   /\ Len(Payloads(Get(top), 18)) = 1
                   /\ ReadFields(Payloads(Get(top), 18)[1], 1)
                        = Some(<<[tag |-> 10, payload |-> Utf8(callsign)]>>)
            /\ hasChat =>
                   /\ Len(Payloads(Get(top), 50)) = 1
                   /\ ReadFields(Payloads(Get(top), 50)[1], 1)
                        = Some(<<[tag |-> 10, payload |-> Utf8(Get(Get(Root.remarks).text))]>>
                               \o (IF Truthy(to_callsign)
                                   THEN <<[tag |-> 26, payload |-> Utf8(Get(to_callsign))]>>
                                   ELSE <<>>))


-----------------------------------------------------------------------------
(* C5: for a well-formed document whose point element has numeric lat and  *)
(* lon, fields 1 and 2 of the returned PLI sub-record, read as             *)
(* little-endian signed 32-bit integers over 1e7, are within 1e-7 degrees  *)
(* of the input, whatever the numeric value is.                            *)

\* | f.m / 10^f.k - i / 10^7 | <= 10^-7 for a signed 32-bit i, without
\* leaving 32 bits.
Within1e7(f, i) ==
    IF f.k <= 7
    THEN /\ FitsInt32E7(f)
         /\ LET x == f.m * Pow10(7 - f.k)
            IN  i = x \/ (x > Int32Min /\ i = x - 1) \/ (x < Int32Max /\ i = x + 1)
    ELSE LET d == Pow10(f.k - 7)
             q == f.m \div d
         IN  i = q \/ i = q + 1 \/ (f.m % d = 0 /\ i = q - 1)

HasNumericLatLon(root) ==
    /\ ~IsNone(root.point)
    /\ ~IsNone(Get(root.point).lat) /\ ~IsNone(ParseFloat(Get(Get(root.point).lat)))
    /\ ~IsNone(Get(root.point).lon) /\ ~IsNone(ParseFloat(Get(Get(root.point).lon)))

\* C5: numeric lat and lon are recovered from PLI fields 1 and 2 to within
\* 1e-7 degrees.
C5_LatLonRoundTrip ==
    (Returned /\ WellFormed /\ HasNumericLatLon(Root)) =>
        /\ ~IsNone(PliOf(result))
        /\ LET pli == ReadFields(Get(PliOf(result)), 1)
           IN  /\ ~IsNone(pli)
               /\ Len(Payloads(Get(pli), 13)) = 1
               /\ Len(Payloads(Get(pli), 21)) = 1
               /\ Within1e7(Get(ParseFloat(Get(Get(Root.point).lat))),
                            DecodeSFixed32(Payloads(Get(pli), 13)[1]))
               /\ Within1e7(Get(ParseFloat(Get(Get(Root.point).lon))),
                            DecodeSFixed32(Payloads(Get(pli), 21)[1]))

-----------------------------------------------------------------------------
(* C7: whenever a step of encode_full_packet fails, the returned bytes are *)
(* exactly 2a 0a 0d 00 00 00 00 15 00 00 00 00, whatever msg held when the *)
(* failure happened.                                                       *)
C7_FallbackIsMinimal == [][pc = "except" => result' = FallbackPayload]_vars

\* A failure after is_compressed and other sub-records were appended to msg.
C7_Witness ==
    /\ Returned /\ WellFormed /\ IsNone(point_part(Root))
    /\ compress /\ Len(msg) > 2
    /\ result = FallbackPayload

-----------------------------------------------------------------------------
(* C8: the PLI sub-record written for altitude 0 is byte-identical to the  *)
(* one written when the point has neither hae nor le, and field 3          *)
(* (tag 0x18) is in the PLI sub-record if and only if the altitude is      *)
(* not 0.                                                                  *)

WithoutAltitude(x) ==
    [x EXCEPT !.tree.point = Some([Get(@) EXCEPT !.hae = None, !.le = None])]

HasAltitudeAttr(root) ==
    ~IsNone(root.point) /\ (Truthy(Get(root.point).hae) \/ Truthy(Get(root.point).le))

\* C8: field 3 is in the PLI sub-record iff the altitude is not 0, and the
\* record for altitude 0 equals the record without hae and le.
C8_ZeroAltitudeSuppressed ==
    (ReturnedNormally /\ ~IsNone(Root.point)) =>
        LET alt == Get(point_alt(Get(Root.point)))
            pli == PliOf(result)
        IN  /\ ~IsNone(pli)
            /\ ~IsNone(ReadFields(Get(pli), 1))
            /\ (Payloads(Get(ReadFields(Get(pli), 1)), 24) # <<>>) <=> (alt # 0)
            /\ alt = 0 => pli = PliOf(encode_full_packet(WithoutAltitude(cot_xml), compress))

\* An altitude attribute that parses to 0, with speed and course present.
C8_Witness ==
    /\ ReturnedNormally /\ HasAltitudeAttr(Root)
    /\ Get(point_alt(Get(Root.point))) = 0
    /\ Get(track_speed(Root)) > 0 /\ Get(track_course(Root)) > 0
    /\ ~IsNone(PliOf(result))

-----------------------------------------------------------------------------
(* Direct calls of _encode_varint, one per integer of the range the        *)
(* encoder can pass: lengths, enum values, battery, speed, course and the  *)
(* signed altitude.                                                        *)

MaxVarintMagnitude == 20000

InitVarint ==
    /\ value \in -MaxVarintMagnitude..MaxVarintMagnitude
    /\ varint_out = <<>>
    /\ EncodeIdle
    /\ MainIdle

\* lines 308-316
EncodeVarint ==
    /\ varint_out = <<>>
    /\ varint_out' = _encode_varint(value)
    /\ UNCHANGED <<value, encVars, mainVars>>

NextVarint == EncodeVarint

SpecVarint == InitVarint /\ [][NextVarint]_vars

\* Standard base-128 decoding.  Up to four bytes give a value below 2^28.
\* Ten bytes whose bits 28..63 are all set are the 64-bit two's complement
\* of a negative value not below -2^28.  Anything else is outside the
\* range read here: None.
DecodeVarint(bytes) ==
    LET low == ReadVarint(SubSeq(bytes, 1, 3) \o <<bytes[4] % 128>>, 1, 1)
    IN  IF Len(bytes) \in 1..4 /\ ReadVarint(bytes, 1, 1).ok
               /\ ReadVarint(bytes, 1, 1).next = Len(bytes) + 1
        THEN Some(ReadVarint(bytes, 1, 1).val)
        ELSE IF /\ Len(bytes) = 10
                /\ \A i \in 1..4 : bytes[i] >= 128
                /\ \A i \in 5..9 : bytes[i] = 255
                /\ bytes[10] = 1
        THEN Some(low.val - 268435456)
        ELSE None

\* The standard encoder: a negative value goes out as the ten bytes of its
\* 64-bit two's complement (n counts the bytes still to write).
RECURSIVE StandardVarintGroups(_, _)
StandardVarintGroups(v, n) ==
    IF n = 1 THEN <<v % 2>>
    ELSE <<(v % 128) + 128>> \o StandardVarintGroups(v \div 128, n - 1)

StandardVarint(v) == IF v >= 0 THEN _encode_varint(v) ELSE StandardVarintGroups(v, 10)

\* The decoder reads what the standard encoder writes.
DecoderReadsStandard == DecodeVarint(StandardVarint(value)) = Some(value)

(* C6: for every integer the encoder passes, _encode_varint returns a      *)
(* standard base-128 varint: every byte but the last has the continuation  *)
(* bit set, the last has it clear, and standard decoding (two's complement *)
(* for a negative value) gives the integer back.                           *)
C6_VarintIsStandard ==
    varint_out # <<>> =>
        /\ \A i \in 1..Len(varint_out) - 1 : varint_out[i] >= 128
        /\ varint_out[Len(varint_out)] < 128
        /\ DecodeVarint(varint_out) = Some(value)

\* The same for the integers that are not negative.
NonNegativeVarintIsStandard == value >= 0 => C6_VarintIsStandard

-----------------------------------------------------------------------------
(* One run of main(), lines 392-432, with MeshtasticCoTSender.__init__     *)
(* (320-347), send_cot (349-381) and close (383-390).  The transport       *)
(* (the meshtastic interface object) is outside the program: its           *)
(* constructor, sendData and close each either return or raise.            *)
(* mpc: "parse_args", "read_stdin", "construct", "encode", "send_data",    *)
(* "sys_exit", "fatal", "finally", "exited".                               *)

\* What stdin may hold: the three strings that are not XML, and documents
\* with a contact and a point.
StdinChoices ==
    {x \in Inputs :
        /\ x.tree.group = None /\ x.tree.status = None /\ x.tree.track = None
        /\ x.tree.remarks = None /\ x.tree.dest = None}

InitMain ==
    /\ cot_xml \in StdinChoices
    /\ compress = FALSE
    /\ pc = "idle" /\ msg = <<>> /\ result = <<>>
    /\ VarintIdle
    /\ mpc = "parse_args"
    /\ argv \in {"ok", "bad", "help"}
    /\ opened = 0 /\ atak_packet = <<>>
    /\ sends = 0 /\ sent = <<>> /\ send_outcome = "none" /\ success = "none"
    /\ pending = -1 /\ closes = 0 /\ close_error = FALSE /\ exit_status = -1

\* lines 393-404: parser.parse_args() returns, or ends the process with
\* status 2 (an argument outside choices, a --channel that is no int) or
\* with status 0 (--help).
ParseArgs ==
    /\ mpc = "parse_args"
    /\ CASE argv = "ok" -> mpc' = "read_stdin" /\ exit_status' = exit_status
         [] argv = "bad" -> mpc' = "exited" /\ exit_status' = 2
         [] argv = "help" -> mpc' = "exited" /\ exit_status' = 0
    /\ UNCHANGED <<encVars, varintVars, argv, opened, atak_packet, sends, sent,
                   send_outcome, success, pending, closes, close_error>>

\* lines 406-411: an empty stdin ends the process with status 1.
ReadStdin ==
    /\ mpc = "read_stdin"
    /\ IF cot_xml.text = "empty"
       THEN mpc' = "exited" /\ exit_status' = 1
       ELSE mpc' = "construct" /\ exit_status' = exit_status
    /\ UNCHANGED <<encVars, varintVars, argv, opened, atak_packet, sends, sent,
                   send_outcome, success, pending, closes, close_error>>

\* lines 413-420 and 320-347: the interface constructor returns (sender is
\* set) or raises (__init__ re-raises, sender stays None).
Construct ==
    /\ mpc = "construct"
    /\ \/ mpc' = "encode" /\ opened' = opened + 1
       \/ mpc' = "fatal" /\ opened' = opened
    /\ UNCHANGED <<encVars, varintVars, argv, atak_packet, sends, sent,
                   send_outcome, success, pending, closes, close_error, exit_status>>

\* lines 360-364: atak_packet = encode_full_packet(cot_xml), compress left
\* at its default.
SendCotEncode ==
    /\ mpc = "encode"
    /\ atak_packet' = encode_full_packet(cot_xml, FALSE)
    /\ mpc' = "send_data"
    /\ UNCHANGED <<encVars, varintVars, argv, opened, sends, sent,
                   send_outcome, success, pending, closes, close_error, exit_status>>

MaxSendAttempts == 2

\* A send_cot that tries sendData again after it raised.
SendCotSendDataRetries ==
    /\ mpc = "send_data"
    /\ sends' = sends + 1
    /\ sent' = Append(sent, atak_packet)
    /\ \/ send_outcome' = "ok" /\ success' = "True" /\ mpc' = "sys_exit"
       \/ /\ send_outcome' = "raised"
          /\ IF sends' < MaxSendAttempts
             THEN success' = success /\ mpc' = "send_data"
             ELSE success' = "False" /\ mpc' = "sys_exit"
    /\ UNCHANGED <<encVars, varintVars, argv, opened, atak_packet,
                   pending, closes, close_error, exit_status>>

\* lines 366-381: one interface.sendData call; return True when it
\* returns, return False from the except clause when it raises.
SendCotSendData ==
    /\ mpc = "send_data"
    /\ sends' = sends + 1
    /\ sent' = Append(sent, atak_packet)
    /\ \/ send_outcome' = "ok" /\ success' = "True"
       \/ send_outcome' = "raised" /\ success' = "False"
    /\ mpc' = "sys_exit"
    /\ UNCHANGED <<encVars, varintVars, argv, opened, atak_packet,
                   pending, closes, close_error, exit_status>>

\* line 425: sys.exit(0 if success else 1) raises SystemExit, which the
\* except Exception clause does not catch.
SysExit ==
    /\ mpc = "sys_exit"
    /\ pending' = IF success = "True" THEN 0 ELSE 1
    /\ mpc' = "finally"
    /\ UNCHANGED <<encVars, varintVars, argv, opened, atak_packet, sends, sent,
                   send_outcome, success, closes, close_error, exit_status>>

\* lines 427-429: except Exception: sys.exit(1).
Fatal ==
    /\ mpc = "fatal"
    /\ pending' = 1
    /\ mpc' = "finally"
    /\ UNCHANGED <<encVars, varintVars, argv, opened, atak_packet, sends, sent,
                   send_outcome, success, closes, close_error, exit_status>>

\* A close whose exception is not caught: it replaces the SystemExit in
\* flight and the process ends with status 1.
FinallyCloseErrorPropagates ==
    /\ mpc = "finally"
    /\ opened > 0
    /\ closes' = closes + 1
    /\ \/ close_error' = FALSE /\ exit_status' = pending
       \/ close_error' = TRUE /\ exit_status' = 1
    /\ mpc' = "exited"
    /\ UNCHANGED <<encVars, varintVars, argv, opened, atak_packet, sends, sent,
                   send_outcome, success, pending>>

\* lines 430-432 and 383-390 with sender set: interface.close() is called;
\* an exception it raises is caught and logged; then the SystemExit in
\* flight ends the process.
FinallyClose ==
    /\ mpc = "finally"
    /\ opened > 0
    /\ closes' = closes + 1
    /\ close_error' \in BOOLEAN
    /\ exit_status' = pending
    /\ mpc' = "exited"
    /\ UNCHANGED <<encVars, varintVars, argv, opened, atak_packet, sends, sent,
                   send_outcome, success, pending>>

\* lines 430-431 with sender None: nothing to close.
FinallyNoSender ==
    /\ mpc = "finally"
    /\ opened = 0
    /\ exit_status' = pending
    /\ mpc' = "exited"
    /\ UNCHANGED <<encVars, varintVars, argv, opened, atak_packet, sends, sent,
                   send_outcome, success, pending, closes, close_error>>

NextMain ==
    \/ ParseArgs
    \/ ReadStdin
    \/ Construct
    \/ SendCotEncode
    \/ SendCotSendData
    \/ SysExit
    \/ Fatal
    \/ FinallyClose
    \/ FinallyNoSender

SpecMain == InitMain /\ [][NextMain]_vars

Exited == mpc = "exited"

-----------------------------------------------------------------------------
(* C9: a call of send_cot hands the encoded packet to interface.sendData   *)
(* at most once and never tries again; it returns False when that send     *)
(* raised and True when it returned, and raises nothing to main.           *)
C9_SendOnceNoRetry ==
    /\ sends <= 1
    /\ Len(sent) = sends
    /\ send_outcome # "none" => success # "none"
    /\ success # "none" =>
           /\ sends = 1
           /\ sent = <<encode_full_packet(cot_xml, FALSE)>>
           /\ success = "True" <=> send_outcome = "ok"
           /\ success = "False" <=> send_outcome = "raised"
    /\ mpc = "fatal" => sends = 0

\* The run ended after a sendData that raised.
C9_Witness ==
    Exited /\ sends = 1 /\ send_outcome = "raised" /\ success = "False"

-----------------------------------------------------------------------------
(* C10: in a run of main, an empty stdin gives exit status 1 with no       *)
(* interface ever opened; an opened interface is closed exactly once,      *)
(* after the send attempt and before the process ends, and an exception    *)
(* of close() leaves the exit status alone; the exit status is 0 if and    *)
(* only if the interface opened and send_cot returned True.                *)

MainExitRules ==
    /\ cot_xml.text = "empty" => opened = 0
    /\ (Exited /\ cot_xml.text = "empty") => exit_status = 1
    /\ opened <= 1 /\ closes <= opened
    /\ closes = 1 => (sends = 1 /\ success # "none")
    /\ (Exited /\ opened = 1) => closes = 1
    /\ (Exited /\ opened = 1) => exit_status = (IF success = "True" THEN 0 ELSE 1)
    /\ Exited => (exit_status = 0 <=> (opened = 1 /\ success = "True"))
    /\ ~Exited => (exit_status = -1 /\ closes = 0)

\* C10, as written: the exit rules hold of every run of main.
C10_EveryRun == MainExitRules

\* C10, amended: the exit rules hold of every run of main in which
\* parse_args returns.
C10_RunsWhoseArgumentsParse == argv = "ok" => MainExitRules

\* The send succeeded, close() raised, and the process ended with status 0.
C10_Witness ==
    /\ Exited /\ argv = "ok" /\ opened = 1 /\ success = "True"
    /\ closes = 1 /\ close_error /\ exit_status = 0

=============================================================================
